---- MODULE Spec2Model ----
(***************************************************************************)
(* A model of hexon's container engine (hexon/core/container.py): the      *)
(* process cache, the resolution objects shared by reference between       *)
(* containers, and the construction of a container (import merge, own      *)
(* cache short-circuit, provider/export resolution, registration).         *)
(*                                                                         *)
(* Python objects are modelled as heaps: a container, a resolution and an  *)
(* element instance are each an index into a sequence, so that "the same   *)
(* object" is "the same index" and a mutation through one reference is     *)
(* seen through every other one.                                           *)
(***************************************************************************)
EXTENDS Integers, Sequences, FiniteSets, TLC

\* ------------------------------------------------------------------------
\* Bounds of the model
\* ------------------------------------------------------------------------

\* Top-level container constructions the application performs.
MaxBuilds == 3

\* Depth of nested container constructions at which the interpreter's call
\* stack is exhausted (RecursionError).
MaxDepth == 3

\* ------------------------------------------------------------------------
\* The declared classes (the inputs of the engine)
\* ------------------------------------------------------------------------

\* Classes decorated with @Port.
PortClasses == {"PortP", "PortQ"}

\* Classes decorated with @Adapter(PortP). AdP derives from Element only (as
\* the adapters of the test-suite do); AdP2 derives from its port.
AdapterClasses == {"AdP", "AdP2"}

\* Classes decorated with @Service.
ServiceClasses == {"SvcS", "SvcT", "SvcU"}

\* An Element subclass that no decorator has tagged, and a class that is no
\* Element at all.
UntaggedClasses == {"EmptyElement"}
ForeignClasses == {"NotElement"}

\* Classes decorated with @Container.
ContainerClasses ==
  {"CB", "CD", "CE", "CF", "CO", "CX", "CA", "CI", "CR", "CRX", "CK", "CH",
   "CY", "CZ", "CN", "CM", "CP"}

ElementClasses == PortClasses \cup AdapterClasses \cup ServiceClasses

AllClasses ==
  ElementClasses \cup ContainerClasses \cup UntaggedClasses \cup ForeignClasses

\* The port handed to the @Adapter decorator.
PortOf(cls) == "PortP"

\* The user-declared base classes of a class, other than Element.
Bases(cls) == IF cls = "AdP2" THEN {"PortP"} ELSE {}

\* The annotated parameters of __init__ (what get_type_hints returns, the
\* "return" slot dropped).
Params(cls) ==
  CASE cls = "SvcS" -> <<"PortP">>
    [] cls = "SvcT" -> <<"SvcS">>
    [] cls = "SvcU" -> <<"PortQ">>
    [] OTHER -> <<>>

\* issubclass(cls, _Element)
IsElement(cls) == cls \notin ForeignClasses

\* issubclass(cls, _Container)
IsContainer(cls) == cls \in ContainerClasses

\* issubclass(a, b) for two classes of the model.
IsSubclass(a, b) == a = b \/ b \in Bases(a)

\* __element__, as the decorators set it ("" when no decorator ran).
ElementKind(cls) ==
  CASE cls \in PortClasses -> "port"
    [] cls \in AdapterClasses -> "adapter"
    [] cls \in ServiceClasses -> "service"
    [] cls \in ContainerClasses -> "container"
    [] OTHER -> ""

\* hasattr(cls, "__token__")
HasToken(cls) == ElementKind(cls) # ""

\* (Faulty variant of AdapterToken: the adapter keeps its own class name.)
AdapterTokenOwnName(cls) == cls

\* Adapter.__call__: Adapter.__token__ = self.port.__token__, and a port's
\* token is its class name.
AdapterToken(cls) == PortOf(cls)

\* __token__, as the decorators set it: the class name for a port, a service
\* and a container, the port's token for an adapter.
Token(cls) == IF ElementKind(cls) = "adapter" THEN AdapterToken(cls) ELSE cls

\* __name__ of the decorated class: @Service leaves the wrapper class named
\* "Service", the other decorators keep or restore the declared name.
ClassName(cls) == IF ElementKind(cls) = "service" THEN "Service" ELSE cls

\* Whether the class still has unimplemented abstract methods (instantiating
\* it raises TypeError): the ports declare one abstract method each.
IsAbstract(cls) == cls \in PortClasses

NoConfig == [absent |-> TRUE]

\* _Config of each container class: providers, exports, imports, re_export.
Cfg(p, e, i, r) == [providers |-> p, exports |-> e, imports |-> i, re_export |-> r]

Config(cls) ==
  CASE cls = "CB" -> Cfg(<<"AdP">>, <<"SvcS">>, <<>>, FALSE)
    [] cls = "CD" -> Cfg(<<"AdP">>, <<>>, <<>>, FALSE)
    [] cls = "CE" -> Cfg(<<>>, <<"AdP">>, <<>>, TRUE)
    [] cls = "CF" -> Cfg(<<>>, <<"AdP">>, <<>>, FALSE)
    [] cls = "CO" -> Cfg(<<"SvcS">>, <<"AdP">>, <<>>, FALSE)
    [] cls = "CP" -> Cfg(<<"AdP", "SvcS">>, <<>>, <<>>, FALSE)
    [] cls = "CA" -> Cfg(<<>>, <<"SvcT">>, <<"CB">>, FALSE)
    [] cls = "CI" -> Cfg(<<>>, <<>>, <<"CB">>, TRUE)
    [] cls = "CX" -> Cfg(<<"AdP2">>, <<"SvcS">>, <<>>, FALSE)
    [] cls = "CR" -> Cfg(<<>>, <<"SvcS">>, <<"CB">>, FALSE)
    [] cls = "CRX" -> Cfg(<<>>, <<"SvcS">>, <<"CB">>, TRUE)
    [] cls = "CK" -> Cfg(<<>>, <<>>, <<"CA">>, TRUE)
    [] cls = "CH" -> Cfg(<<>>, <<"SvcU">>, <<"CD">>, FALSE)
    [] cls = "CY" -> Cfg(<<>>, <<>>, <<"CZ">>, FALSE)
    [] cls = "CZ" -> Cfg(<<>>, <<>>, <<"CY">>, FALSE)
    [] cls = "CM" -> Cfg(<<>>, <<>>, <<"CB">>, FALSE)
    [] OTHER -> NoConfig

\* "if not self.__config__" passes.
HasConfig(cls) == Config(cls) # NoConfig

\* (Faulty variant of HasMeta: the metadata is taken to be there.)
HasMetaUnchecked(cls) == TRUE

\* "if not self.__meta__" passes: CM's metadata is None.
HasMeta(cls) == cls # "CM"

\* The elements of a sequence.
Range(s) == {s[k] : k \in DOMAIN s}

\* ------------------------------------------------------------------------
\* State
\* ------------------------------------------------------------------------

VARIABLES
  cache,   \* _Cache._containers: the ordered dict, a sequence of [token, cont]
  conts,   \* heap of _Container objects: [cls, res, status]
  rheap,   \* heap of _Resolution objects
  iheap,   \* heap of element instances: [cls, args, by]
  stack,   \* the nested constructions in progress, innermost last
  builds,  \* top-level constructions started so far
  last,    \* what the last operation of the application returned or raised
  attrs,      \* the attributes each class under declaration carries
  instances,  \* Singleton: the instances dict of each decorated class
  objs,       \* Singleton: heap of the instances of the decorated classes
  imm,        \* heap of Immutable objects
  bodies      \* the classes of an adapter declaration, and what @Adapter made

\* The state of the container engine, and that of the helper classes.
engine == <<cache, conts, rheap, iheap, stack, builds>>
helpers == <<attrs, instances, objs, imm, bodies>>

vars ==
  <<cache, conts, rheap, iheap, stack, builds, last, attrs, instances, objs, imm,
    bodies>>

\* The classes whose body the application writes attribute by attribute (the
\* tests' EmptyElement, ElementWithElementTag, ...): subclasses of Element.
DeclaredElements == {"ElementA", "ElementB"}

\* The classes decorated with @Singleton (the tests' JustOne).
SingletonClasses == {"JustOne", "JustTwo"}

\* The methods a class of an adapter declaration can define, and a class body
\* that defines none of them yet.
Methods == {"f", "g"}
EmptyBody == [m \in Methods |-> "absent"]

\* A class that no decorator has handled yet.
Undecorated == [element |-> "", token |-> "", meta |-> ""]

\* A dict with no key.
EmptyDict == [t \in {} |-> 0]

\* d[k] = v on a dict.
DictPut(d, k, v) == [t \in DOMAIN d \cup {k} |-> IF t = k THEN v ELSE d[t]]

\* What the application last called: the operation, the container it was
\* called on (0 when on none), the class passed, "ok" or the error raised, and
\* the object returned (0 for None).
Result(op, on, arg, outcome, value) ==
  [op |-> op, on |-> on, arg |-> arg, outcome |-> outcome, value |-> value]

Init ==
  /\ cache = <<>>
  /\ conts = <<>>
  /\ rheap = <<>>
  /\ iheap = <<>>
  /\ stack = <<>>
  /\ builds = 0
  /\ last = Result("none", 0, "", "ok", 0)
  /\ attrs = [cls \in DeclaredElements |-> {}]
  /\ instances = [cls \in SingletonClasses |-> 0]
  /\ objs = <<>>
  /\ imm = <<>>
  /\ bodies = [port |-> EmptyBody, base |-> EmptyBody, adapter |-> EmptyBody,
               derives |-> "Element", decorated |-> Undecorated]


\* ------------------------------------------------------------------------
\* _Resolution, the read views of a container, the process cache
\* ------------------------------------------------------------------------

\* _Resolution(token, type, instance, deps) with origin = None ("" here) and
\* from_cache = False.
NewResolution(token, type, instance, deps) ==
  [token |-> token, type |-> type, instance |-> instance, deps |-> deps,
   origin |-> "", from_cache |-> FALSE]

\* _Container.providers: the resolutions whose type is "provider" now.
Container_providers(rh, res) == {t \in DOMAIN res : rh[res[t]].type = "provider"}

\* _Container.exports: the resolutions whose type is "export" now.
Container_exports(rh, res) == {t \in DOMAIN res : rh[res[t]].type = "export"}

\* _Cache.get_by_token: the cached container, or None (0).
Cache_get_by_token(cch, token) ==
  IF \E k \in DOMAIN cch : cch[k].token = token
    THEN cch[CHOOSE k \in DOMAIN cch : cch[k].token = token].cont
    ELSE 0

\* _Cache.add: self._containers[token] = container (an existing key keeps its
\* place in the dict and takes the new value).
Cache_add(cch, token, cont) ==
  IF \E k \in DOMAIN cch : cch[k].token = token
    THEN [k \in DOMAIN cch |->
            IF cch[k].token = token THEN [token |-> token, cont |-> cont] ELSE cch[k]]
    ELSE Append(cch, [token |-> token, cont |-> cont])

\* What a call returns or raises: outcome is "ok" or the error, value the
\* object returned (0 for None).
Returned(value) == [outcome |-> "ok", value |-> value]
Raised(error) == [outcome |-> error, value |-> 0]

\* (Faulty variant of Cache_get: a foreign type is looked up like any other.)
Cache_get_unchecked(cch, cls) == Returned(Cache_get_by_token(cch, Token(cls)))

\* _Cache.get
Cache_get(cch, cls) ==
  IF ~IsContainer(cls)
    THEN Raised("INVALID_ELEMENT")
    ELSE Returned(Cache_get_by_token(cch, Token(cls)))

\* _Cache.try_get
Cache_try_get(cch, cls) ==
  IF ~IsContainer(cls)
    THEN Raised("INVALID_ELEMENT")
    ELSE LET cache_container == Cache_get_by_token(cch, Token(cls))
         IN IF cache_container # 0
              THEN Returned(cache_container)
              ELSE Raised("NOT_FOUND")

\* (Faulty variant of Cache_get_provider: the token is looked for among all the
\* resolutions of the cached containers, whatever their role.)
Cache_get_provider_any_role(cch, cs, rh, provider) ==
  LET hits == {k \in DOMAIN cch : Token(provider) \in DOMAIN cs[cch[k].cont].res}
  IN IF hits = {}
       THEN 0
       ELSE LET first == CHOOSE k \in hits : \A j \in hits : k <= j
            IN cs[cch[first].cont].res[Token(provider)]

\* _Cache.get_provider: the resolution under the provider's token in the first
\* cached container (in the dict's order) that has the token among its
\* providers; None (0) when no cached container has.
Cache_get_provider(cch, cs, rh, provider) ==
  LET hits == {k \in DOMAIN cch :
                 Token(provider) \in Container_providers(rh, cs[cch[k].cont].res)}
  IN IF hits = {}
       THEN 0
       ELSE LET first == CHOOSE k \in hits : \A j \in hits : k <= j
            IN cs[cch[first].cont].res[Token(provider)]

\* _Container.get
Container_get(rh, res, element) ==
  IF ~IsElement(element) THEN Raised("TypeError")
  ELSE IF ~HasToken(element) THEN Raised("AttributeError")
  ELSE IF Token(element) \in DOMAIN res
    THEN Returned(rh[res[Token(element)]].instance)
    ELSE Raised("KeyError")


\* ------------------------------------------------------------------------
\* Building one declared class
\* ------------------------------------------------------------------------

\* cls(*args): TypeError when the class is abstract or the arguments do not
\* fill its constructor's parameters.
CanInstantiate(cls, nargs) == ~IsAbstract(cls) /\ nargs = Len(Params(cls))

\* A new element instance; "by" records the container under construction.
NewInstance(cls, args, by) == [cls |-> cls, args |-> args, by |-> by]

\* (Faulty variant of Container_dep: the resolution map is consulted first, the
\* declared classes only when the token is not resolved yet.)
Container_dep_map_first(self, cls, rh, res, ih) ==
  LET cfg == Config(conts[self].cls)
      declared == cfg.providers \o cfg.exports
      matches == {k \in DOMAIN declared : IsSubclass(declared[k], cls)}
  IN IF Token(cls) \in DOMAIN res
       THEN [err |-> "none", ih |-> ih, inst |-> rh[res[Token(cls)]].instance]
     ELSE IF matches # {}
       THEN LET provider == declared[CHOOSE k \in matches : \A j \in matches : k <= j]
            IN IF CanInstantiate(provider, 0)
                 THEN [err |-> "none",
                       ih |-> Append(ih, NewInstance(provider, <<>>, self)),
                       inst |-> Len(ih) + 1]
                 ELSE [err |-> "TypeError", ih |-> ih, inst |-> 0]
     ELSE [err |-> "KeyError", ih |-> ih, inst |-> 0]

\* _Container._get: the first declared class (providers, then exports) that is
\* a subclass of the requested type is instantiated with no argument;
\* otherwise the instance resolved under the requested type's token;
\* otherwise KeyError.
Container_dep(self, cls, rh, res, ih) ==
  LET cfg == Config(conts[self].cls)
      declared == cfg.providers \o cfg.exports
      matches == {k \in DOMAIN declared : IsSubclass(declared[k], cls)}
  IN IF matches # {}
       THEN LET provider == declared[CHOOSE k \in matches : \A j \in matches : k <= j]
            IN IF CanInstantiate(provider, 0)
                 THEN [err |-> "none",
                       ih |-> Append(ih, NewInstance(provider, <<>>, self)),
                       inst |-> Len(ih) + 1]
                 ELSE [err |-> "TypeError", ih |-> ih, inst |-> 0]
     ELSE IF Token(cls) \in DOMAIN res
       THEN [err |-> "none", ih |-> ih, inst |-> rh[res[Token(cls)]].instance]
     ELSE [err |-> "KeyError", ih |-> ih, inst |-> 0]

\* deps.append(f"<{param}, {dependency.__class__.__name__}>") and
\* init_args[param] = dependency, for the k-th parameter; acc = [err, ih, args,
\* deps], dependency is what _get returned or raised.
WithDependency(acc, k, dependency) ==
  IF dependency.err # "none"
    THEN [acc EXCEPT !.err = dependency.err, !.ih = dependency.ih]
    ELSE [err |-> "none",
          ih |-> dependency.ih,
          args |-> Append(acc.args, dependency.inst),
          deps |-> Append(acc.deps,
                     <<k, ClassName(dependency.ih[dependency.inst].cls)>>)]

\* The loop of _Container._resolve over the constructor's parameters, from
\* parameter k on; it stops at the first dependency that raises.
\* (Here and below, CHOOSE x \in {F(v) : v \in {e}} : TRUE is F(e), with e
\* evaluated once: an intermediate result is a value, as in the code.)
RECURSIVE resolve_params(_, _, _, _, _, _)
resolve_params(self, cls, k, rh, res, acc) ==
  IF acc.err # "none" \/ k > Len(Params(cls))
    THEN acc
    ELSE CHOOSE a \in
           {resolve_params(self, cls, k + 1, rh, res, WithDependency(acc, k, dependency)) :
              dependency \in {Container_dep(self, Params(cls)[k], rh, res, acc.ih)}} : TRUE

\* return cls(**init_args), deps
Instantiated(self, cls, a) ==
  IF a.err # "none"
    THEN [err |-> a.err, ih |-> a.ih, inst |-> 0, deps |-> a.deps]
  ELSE IF ~CanInstantiate(cls, Len(a.args))
    THEN [err |-> "TypeError", ih |-> a.ih, inst |-> 0, deps |-> a.deps]
  ELSE [err |-> "none",
        ih |-> Append(a.ih, NewInstance(cls, a.args, self)),
        inst |-> Len(a.ih) + 1,
        deps |-> a.deps]

\* _Container._resolve: the instance of cls built from its resolved
\* dependencies, and the descriptions of those.
Container_resolve(self, cls, rh, res, ih) ==
  CHOOSE built \in
    {Instantiated(self, cls, a) :
       a \in {resolve_params(self, cls, 1, rh, res,
                [err |-> "none", ih |-> ih, args |-> <<>>, deps |-> <<>>])}} : TRUE

\* (Faulty variant of CachedRole: a class found in the cache keeps the export
\* role when it is listed in exports, whatever re_export says.)
CachedRoleByList(cfg, provider) ==
  IF provider \in Range(cfg.exports) THEN "export" ELSE "provider"

\* The role given to a declared class whose resolution was found in the cache.
CachedRole(cfg, provider) ==
  IF provider \in Range(cfg.exports) /\ cfg.re_export THEN "export" ELSE "provider"

\* The role given to a declared class that was built.
BuiltRole(cfg, provider) ==
  IF provider \in Range(cfg.providers) THEN "provider" ELSE "export"

\* _make_resolution, "if resolution:": the cached resolution object is stored
\* under the token, marked as cached and given its role here.
ResolvedFromCache(st, cfg, provider, resolution) ==
  [st EXCEPT
     !.res = DictPut(st.res, Token(provider), resolution),
     !.rh = [st.rh EXCEPT
               ![resolution].from_cache = TRUE,
               ![resolution].type = CachedRole(cfg, provider)]]

\* _make_resolution, the class is built: a new _Resolution is stored under the
\* token, unless _resolve raised.
ResolvedFresh(st, cfg, provider, built) ==
  IF built.err # "none"
    THEN [st EXCEPT !.err = built.err, !.ih = built.ih]
    ELSE [err |-> "none",
          rh |-> Append(st.rh,
                   NewResolution(Token(provider), BuiltRole(cfg, provider),
                                 built.inst, built.deps)),
          ih |-> built.ih,
          res |-> DictPut(st.res, Token(provider), Len(st.rh) + 1)]

\* One turn of the loop of _Container._make_resolution, for the declared class
\* provider; st = [err, rh, ih, res].
resolve_declared(self, provider, st) ==
  CHOOSE after \in
    {IF resolution # 0
       THEN ResolvedFromCache(st, Config(conts[self].cls), provider, resolution)
       ELSE CHOOSE fresh \in
              {ResolvedFresh(st, Config(conts[self].cls), provider, built) :
                 built \in {Container_resolve(self, provider, st.rh, st.res, st.ih)}} : TRUE :
     resolution \in {Cache_get_provider(cache, conts, st.rh, provider)}} : TRUE

\* (Faulty variant of Declared: the exports are taken before the providers.)
DeclaredExportsFirst(cls) == Config(cls).exports \o Config(cls).providers

\* self._providers + self._exports
Declared(cls) == Config(cls).providers \o Config(cls).exports

\* The loop of _Container._make_resolution over providers + exports, from the
\* k-th declared class on; it stops at the first class that raises.
RECURSIVE resolve_all(_, _, _)
resolve_all(self, k, st) ==
  IF st.err # "none" \/ k > Len(Declared(conts[self].cls))
    THEN st
    ELSE CHOOSE out \in
           {resolve_all(self, k + 1, after) :
              after \in {resolve_declared(self, Declared(conts[self].cls)[k], st)}} : TRUE

\* (Faulty variant of Registered: the container is put in the cache whether or not
\* its resolution loop completed.)
RegisteredAlways(cch, cls, self, err) == Cache_add(cch, Token(cls), self)

\* The cache after the loop of _make_resolution: self._cache.add(self) is
\* reached only when no declared class raised.
Registered(cch, cls, self, err) ==
  IF err = "none" THEN Cache_add(cch, Token(cls), self) ELSE cch

\* The loop of _Container._resolve_imports over container.exports.items():
\* each exported resolution of the imported container gets the origin, is
\* marked as cached and is turned into a provider.
MergedHeap(rh, imported) ==
  LET exported == {imported.res[t] : t \in Container_exports(rh, imported.res)}
  IN [r \in DOMAIN rh |->
        IF r \in exported
          THEN [rh[r] EXCEPT !.origin = ClassName(imported.cls),
                             !.from_cache = TRUE,
                             !.type = "provider"]
          ELSE rh[r]]

\* self._resolutions[symbol] = resolution, for every export of the imported
\* container.
MergedMap(res, rh, imported) ==
  LET symbols == Container_exports(rh, imported.res)
  IN [t \in DOMAIN res \cup symbols |->
        IF t \in symbols THEN imported.res[t] ELSE res[t]]


\* ------------------------------------------------------------------------
\* Constructing a container
\* ------------------------------------------------------------------------

\* A new _Container object: self._resolutions = {}.
NewContainer(cls) == [cls |-> cls, res |-> EmptyDict, status |-> "building"]

\* The activation of one __init__: the container under construction, the
\* position in its imports, the container a nested construction returned
\* (0 when none is pending); and, to state the claims, what the cache held
\* under the container's own token and how many instances existed at entry.
NewFrame(self, cls) ==
  [self |-> self, i |-> 1, ret |-> 0,
   own |-> Cache_get_by_token(cache, Token(cls)), n0 |-> Len(iheap)]

Top == stack[Len(stack)]
TopCls == conts[Top.self].cls
TopImports == Config(TopCls).imports

\* The class whose construction the application asked for.
RootCls == conts[stack[1].self].cls

\* An exception leaves every __init__ in progress: their containers are
\* dropped unfinished.
Abandoned(cs) ==
  [c \in DOMAIN cs |->
     IF \E k \in DOMAIN stack : stack[k].self = c
       THEN [cs[c] EXCEPT !.status = "failed"]
       ELSE cs[c]]

\* The innermost __init__ returns container self: to the importer waiting for
\* it, or to the application.
ReturnTo(self) ==
  IF Len(stack) > 1
    THEN /\ stack' = [SubSeq(stack, 1, Len(stack) - 1) EXCEPT ![Len(stack) - 1].ret = self]
         /\ last' = last
    ELSE /\ stack' = <<>>
         /\ last' = Result("construct", 0, conts[self].cls, "ok", self)

\* _Container.__init__ called by the application, up to the call of
\* _resolve_imports.
Construct(cls) ==
  /\ stack = <<>>
  /\ builds < MaxBuilds
  /\ builds' = builds + 1
  /\ IF HasConfig(cls) /\ HasMeta(cls)
       THEN /\ conts' = Append(conts, NewContainer(cls))
            /\ stack' = <<NewFrame(Len(conts) + 1, cls)>>
            /\ last' = Result("construct", 0, cls, "running", 0)
       ELSE /\ last' = Result("construct", 0, cls, "AttributeError", 0)
            /\ UNCHANGED <<conts, stack>>
  /\ UNCHANGED <<cache, rheap, iheap>>
  /\ UNCHANGED helpers

\* (Faulty variant of ImportFromCache: the loop over the imports does not move on
\* to the next import.)
ImportFromCacheAgain ==
  /\ stack # <<>>
  /\ Top.ret = 0
  /\ Top.i <= Len(TopImports)
  /\ LET found == Cache_get(cache, TopImports[Top.i])
     IN /\ found.outcome = "ok"
        /\ found.value # 0
        /\ rheap' = MergedHeap(rheap, conts[found.value])
        /\ conts' = [conts EXCEPT ![Top.self].res =
                       MergedMap(conts[Top.self].res, rheap, conts[found.value])]
  /\ UNCHANGED <<cache, iheap, stack, builds, last>>
  /\ UNCHANGED helpers

\* _resolve_imports, one import that the cache holds: its exports are merged.
ImportFromCache ==
  /\ stack # <<>>
  /\ Top.ret = 0
  /\ Top.i <= Len(TopImports)
  /\ LET found == Cache_get(cache, TopImports[Top.i])
     IN /\ found.outcome = "ok"
        /\ found.value # 0
        /\ rheap' = MergedHeap(rheap, conts[found.value])
        /\ conts' = [conts EXCEPT ![Top.self].res =
                       MergedMap(conts[Top.self].res, rheap, conts[found.value])]
        /\ stack' = [stack EXCEPT ![Len(stack)].i = Top.i + 1]
  /\ UNCHANGED <<cache, iheap, builds, last>>
  /\ UNCHANGED helpers

\* (Faulty variant of ImportConstruct: an import whose class is already under
\* construction is passed over instead of being constructed again.)
ImportConstructOnce ==
  /\ stack # <<>>
  /\ Top.ret = 0
  /\ Top.i <= Len(TopImports)
  /\ Len(stack) < MaxDepth
  /\ LET cls == TopImports[Top.i]
         found == Cache_get(cache, cls)
     IN /\ found.outcome = "ok"
        /\ found.value = 0
        /\ IF \E f \in DOMAIN stack : conts[stack[f].self].cls = cls
             THEN /\ stack' = [stack EXCEPT ![Len(stack)].i = Top.i + 1]
                  /\ UNCHANGED <<conts, last>>
           ELSE IF HasConfig(cls) /\ HasMeta(cls)
             THEN /\ conts' = Append(conts, NewContainer(cls))
                  /\ stack' = Append(stack, NewFrame(Len(conts) + 1, cls))
                  /\ last' = last
             ELSE /\ conts' = Abandoned(conts)
                  /\ stack' = <<>>
                  /\ last' = Result("construct", 0, RootCls, "AttributeError", 0)
  /\ UNCHANGED <<cache, rheap, iheap, builds>>
  /\ UNCHANGED helpers

\* _resolve_imports, one import that the cache does not hold:
\* container_class() is called.
ImportConstruct ==
  /\ stack # <<>>
  /\ Top.ret = 0
  /\ Top.i <= Len(TopImports)
  /\ Len(stack) < MaxDepth
  /\ LET cls == TopImports[Top.i]
         found == Cache_get(cache, cls)
     IN /\ found.outcome = "ok"
        /\ found.value = 0
        /\ IF HasConfig(cls) /\ HasMeta(cls)
             THEN /\ conts' = Append(conts, NewContainer(cls))
                  /\ stack' = Append(stack, NewFrame(Len(conts) + 1, cls))
                  /\ last' = last
             ELSE /\ conts' = Abandoned(conts)
                  /\ stack' = <<>>
                  /\ last' = Result("construct", 0, RootCls, "AttributeError", 0)
  /\ UNCHANGED <<cache, rheap, iheap, builds>>
  /\ UNCHANGED helpers

\* The nested constructions have used up the call stack: RecursionError
\* leaves every __init__ in progress.
ImportOverflow ==
  /\ stack # <<>>
  /\ Top.ret = 0
  /\ Top.i <= Len(TopImports)
  /\ Len(stack) >= MaxDepth
  /\ Cache_get(cache, TopImports[Top.i]) = Returned(0)
  /\ conts' = Abandoned(conts)
  /\ stack' = <<>>
  /\ last' = Result("construct", 0, RootCls, "RecursionError", 0)
  /\ UNCHANGED <<cache, rheap, iheap, builds>>
  /\ UNCHANGED helpers

\* _resolve_imports, after container_class() has returned: the new container
\* is added to the cache and its exports are merged.
ImportReturn ==
  /\ stack # <<>>
  /\ Top.ret # 0
  /\ LET container == conts[Top.ret]
     IN /\ cache' = Cache_add(cache, Token(container.cls), Top.ret)
        /\ rheap' = MergedHeap(rheap, container)
        /\ conts' = [conts EXCEPT ![Top.self].res =
                       MergedMap(conts[Top.self].res, rheap, container)]
        /\ stack' = [stack EXCEPT ![Len(stack)].i = Top.i + 1, ![Len(stack)].ret = 0]
  /\ UNCHANGED <<iheap, builds, last>>
  /\ UNCHANGED helpers

\* The imports of the innermost __init__ are all merged: _make_resolution runs.
AtMakeResolution ==
  /\ stack # <<>>
  /\ Top.ret = 0
  /\ Top.i > Len(TopImports)

\* (Faulty variant of Adopted: the container keeps the map its imports were merged
\* into.)
AdoptedNothing(cs, self, container) == [cs EXCEPT ![self].status = "built"]

\* self._resolutions = container._resolutions: the very dict of the cached
\* container, which no one writes to afterwards.
Adopted(cs, self, container) ==
  [cs EXCEPT ![self].res = cs[container].res, ![self].status = "built"]

\* _make_resolution, the container's own token is cached: the cached
\* container's resolutions are adopted.
AdoptCached ==
  /\ AtMakeResolution
  /\ Cache_get_by_token(cache, Token(TopCls)) # 0
  /\ conts' = Adopted(conts, Top.self, Cache_get_by_token(cache, Token(TopCls)))
  /\ ReturnTo(Top.self)
  /\ UNCHANGED <<cache, rheap, iheap, builds>>
  /\ UNCHANGED helpers

\* The end of _make_resolution, out being what its loop left: the container
\* is registered and returned, or the exception leaves every __init__.
Finish(out) ==
  /\ rheap' = out.rh
  /\ iheap' = out.ih
  /\ cache' = Registered(cache, TopCls, Top.self, out.err)
  /\ IF out.err = "none"
       THEN /\ conts' = [conts EXCEPT ![Top.self].res = out.res,
                                      ![Top.self].status = "built"]
            /\ ReturnTo(Top.self)
       ELSE /\ conts' = Abandoned([conts EXCEPT ![Top.self].res = out.res])
            /\ stack' = <<>>
            /\ last' = Result("construct", 0, RootCls, out.err, 0)

\* _make_resolution, the loop over providers + exports and the registration.
MakeResolution ==
  /\ AtMakeResolution
  /\ Cache_get_by_token(cache, Token(TopCls)) = 0
  /\ \E out \in {resolve_all(Top.self, 1,
                     [err |-> "none", rh |-> rheap, ih |-> iheap,
                      res |-> conts[Top.self].res])} : Finish(out)
  /\ UNCHANGED builds
  /\ UNCHANGED helpers

\* (Faulty variant of Clear: only the entry added first is dropped.)
ClearOldest ==
  /\ stack = <<>>
  /\ cache' = IF cache = <<>> THEN <<>> ELSE Tail(cache)
  /\ last' = Result("clear", 0, "", "ok", 0)
  /\ UNCHANGED <<conts, rheap, iheap, stack, builds>>
  /\ UNCHANGED helpers

\* _Cache.clear, called by the application.
Clear ==
  /\ stack = <<>>
  /\ cache' = <<>>
  /\ last' = Result("clear", 0, "", "ok", 0)
  /\ UNCHANGED <<conts, rheap, iheap, stack, builds>>
  /\ UNCHANGED helpers

\* ------------------------------------------------------------------------
\* The read accessors, called by the application
\* ------------------------------------------------------------------------

\* The classes the application passes to the accessors.
QueriedElements == {"PortP", "AdP", "SvcS", "SvcU", "CB", "EmptyElement", "NotElement"}
QueriedContainers == {"CB", "CA", "CN", "AdP", "NotElement"}

\* The containers the application can hold: those whose construction returned.
Built == {c \in DOMAIN conts : conts[c].status = "built"}

Answer(op, on, arg, r) == Result(op, on, arg, r.outcome, r.value)

\* container.get(element)
Get(c, element) ==
  /\ stack = <<>>
  /\ c \in Built
  /\ last' = Answer("get", c, element, Container_get(rheap, conts[c].res, element))
  /\ UNCHANGED <<cache, conts, rheap, iheap, stack, builds>>
  /\ UNCHANGED helpers

\* _Cache().get(cls)
CacheGet(cls) ==
  /\ stack = <<>>
  /\ last' = Answer("cache_get", 0, cls, Cache_get(cache, cls))
  /\ UNCHANGED <<cache, conts, rheap, iheap, stack, builds>>
  /\ UNCHANGED helpers

\* _Cache().try_get(cls)
CacheTryGet(cls) ==
  /\ stack = <<>>
  /\ last' = Answer("cache_try_get", 0, cls, Cache_try_get(cache, cls))
  /\ UNCHANGED <<cache, conts, rheap, iheap, stack, builds>>
  /\ UNCHANGED helpers

\* ------------------------------------------------------------------------
\* Specifications
\* ------------------------------------------------------------------------

\* The application constructs containers and clears the cache.
Next ==
  \/ \E cls \in ContainerClasses : Construct(cls)
  \/ ImportFromCache
  \/ ImportConstruct
  \/ ImportOverflow
  \/ ImportReturn
  \/ AdoptCached
  \/ MakeResolution
  \/ Clear

Spec == Init /\ [][Next]_vars

\* The application also reads: it constructs fewer containers, of fewer
\* classes, and calls the accessors between constructions.
MaxQueryBuilds == 2

QueryBuilds == {"CB", "CA", "CE", "CX", "CH", "CY"}

NextQuery ==
  \/ \E cls \in QueryBuilds : builds < MaxQueryBuilds /\ Construct(cls)
  \/ ImportFromCache
  \/ ImportConstruct
  \/ ImportOverflow
  \/ ImportReturn
  \/ AdoptCached
  \/ MakeResolution
  \/ Clear
  \/ \E c \in Built, element \in QueriedElements : Get(c, element)
  \/ \E cls \in QueriedContainers : CacheGet(cls)
  \/ \E cls \in QueriedContainers : CacheTryGet(cls)

SpecQuery == Init /\ [][NextQuery]_vars

\* The application constructs a few containers, and a construction that has
\* begun runs on: __init__ is synchronous code, each of its steps is taken
\* once it can be.
MaxLiveBuilds == 2

Running ==
  \/ ImportFromCache
  \/ ImportConstruct
  \/ ImportOverflow
  \/ ImportReturn
  \/ AdoptCached
  \/ MakeResolution

NextLive ==
  \/ \E cls \in ContainerClasses : builds < MaxLiveBuilds /\ Construct(cls)
  \/ ImportFromCache
  \/ ImportConstruct
  \/ ImportOverflow
  \/ ImportReturn
  \/ AdoptCached
  \/ MakeResolution
  \/ Clear

SpecLive == Init /\ [][NextLive]_vars /\ WF_vars(Running)


\* ------------------------------------------------------------------------
\* Element validation and ContainerTools
\* ------------------------------------------------------------------------

\* The three attributes of the Element contract.
Attributes == {"__element__", "__token__", "__meta__"}

\* What the application passes to ContainerTools.is_element_or_raise: the
\* classes under declaration, a class that is no Element, and a value that is
\* no class.
ToolArguments == DeclaredElements \cup {"NotElement", "not_a_class"}

\* inspect.isclass(element)
IsClass(x) == x # "not_a_class"

\* The attributes hasattr finds on x.
AttrsOf(x) == IF x \in DeclaredElements THEN attrs[x] ELSE {}

\* (Faulty variant of Element_init: the metadata is not looked for.)
Element_init_without_meta(has) ==
  IF "__element__" \notin has THEN Raised("INVALID_ELEMENT")
  ELSE IF "__token__" \notin has THEN Raised("INVALID_ELEMENT")
  ELSE Returned(0)

\* _Element.__init__, on an instance of a class that has the attributes "has".
Element_init(has) ==
  IF "__element__" \notin has THEN Raised("INVALID_ELEMENT")
  ELSE IF "__token__" \notin has THEN Raised("INVALID_ELEMENT")
  ELSE IF "__meta__" \notin has THEN Raised("INVALID_ELEMENT")
  ELSE Returned(0)

\* (Faulty variant of is_element_or_raise: the token is not looked for.)
is_element_or_raise_without_token(isclass, has) ==
  IF ~isclass THEN Raised("AttributeError")
  ELSE IF "__meta__" \notin has THEN Raised("AttributeError")
  ELSE Returned(0)

\* ContainerTools.is_element_or_raise
is_element_or_raise(isclass, has) ==
  IF ~isclass THEN Raised("AttributeError")
  ELSE IF "__meta__" \notin has THEN Raised("AttributeError")
  ELSE IF "__token__" \notin has THEN Raised("AttributeError")
  ELSE Returned(0)

\* The class body, or a decorator, gives the class one more attribute.
DeclareAttr(cls, a) ==
  /\ a \notin attrs[cls]
  /\ attrs' = [attrs EXCEPT ![cls] = @ \cup {a}]
  /\ last' = Result("declare", 0, cls, "ok", 0)
  /\ UNCHANGED engine
  /\ UNCHANGED <<instances, objs, imm, bodies>>

\* cls(), for a class that derives from Element and defines no __init__.
ElementInit(cls) ==
  /\ last' = Answer("element_init", 0, cls, Element_init(attrs[cls]))
  /\ UNCHANGED engine
  /\ UNCHANGED helpers

\* ContainerTools.is_element_or_raise(x)
IsElementOrRaise(x) ==
  /\ last' = Answer("is_element_or_raise", 0, x, is_element_or_raise(IsClass(x), AttrsOf(x)))
  /\ UNCHANGED engine
  /\ UNCHANGED helpers

\* The application declares element classes, constructs them and checks them.
NextElement ==
  \/ \E cls \in DeclaredElements, a \in Attributes : DeclareAttr(cls, a)
  \/ \E cls \in DeclaredElements : ElementInit(cls)
  \/ \E x \in ToolArguments : IsElementOrRaise(x)

SpecElement == Init /\ [][NextElement]_vars

\* ------------------------------------------------------------------------
\* Singleton
\* ------------------------------------------------------------------------

\* The counter of a JustOne object stays within -MaxValue .. MaxValue.
MaxValue == 2

\* The arguments a decorated class's __init__ takes beside self: none.
SingletonParams == 0

\* What get_instance leaves: the instances dict, the heap, and what the call
\* returned or raised.
Called_instance(inst, heap, r) == [instances |-> inst, objs |-> heap, r |-> r]

\* (Faulty variant of get_instance: the class is called on every call.)
get_instance_fresh(inst, heap, cls, nargs) ==
  IF nargs # SingletonParams
    THEN Called_instance(inst, heap, Raised("TypeError"))
    ELSE Called_instance([inst EXCEPT ![cls] = Len(heap) + 1],
                         Append(heap, [cls |-> cls, value |-> 0]),
                         Returned(Len(heap) + 1))

\* Singleton.get_instance(*args): cls(*args) is called only when the dict has
\* no instance of cls (it raises TypeError when the arguments do not fit, and
\* nothing is stored); the stored instance is returned.
get_instance(inst, heap, cls, nargs) ==
  IF inst[cls] = 0
    THEN IF nargs # SingletonParams
           THEN Called_instance(inst, heap, Raised("TypeError"))
           ELSE Called_instance([inst EXCEPT ![cls] = Len(heap) + 1],
                                Append(heap, [cls |-> cls, value |-> 0]),
                                Returned(Len(heap) + 1))
    ELSE Called_instance(inst, heap, Returned(inst[cls]))

\* The application calls the decorated class.
SingletonCall(cls, nargs) ==
  /\ instances' = get_instance(instances, objs, cls, nargs).instances
  /\ objs' = get_instance(instances, objs, cls, nargs).objs
  /\ last' = Answer("call", 0, cls, get_instance(instances, objs, cls, nargs).r)
  /\ UNCHANGED engine
  /\ UNCHANGED <<attrs, imm, bodies>>

\* JustOne.increment, through a reference the application holds.
Increment(o) ==
  /\ objs[o].value < MaxValue
  /\ objs' = [objs EXCEPT ![o].value = @ + 1]
  /\ last' = Result("increment", o, objs[o].cls, "ok", 0)
  /\ UNCHANGED engine
  /\ UNCHANGED <<attrs, instances, imm, bodies>>

\* JustOne.decrement
Decrement(o) ==
  /\ objs[o].value > -MaxValue
  /\ objs' = [objs EXCEPT ![o].value = @ - 1]
  /\ last' = Result("decrement", o, objs[o].cls, "ok", 0)
  /\ UNCHANGED engine
  /\ UNCHANGED <<attrs, instances, imm, bodies>>

\* JustOne.get_value
GetValue(o) ==
  /\ last' = Result("get_value", o, objs[o].cls, "ok", objs[o].value)
  /\ UNCHANGED engine
  /\ UNCHANGED helpers

NextSingleton ==
  \/ \E cls \in SingletonClasses, nargs \in {0, 1} : SingletonCall(cls, nargs)
  \/ \E o \in DOMAIN objs : Increment(o)
  \/ \E o \in DOMAIN objs : Decrement(o)
  \/ \E o \in DOMAIN objs : GetValue(o)

SpecSingleton == Init /\ [][NextSingleton]_vars

\* ------------------------------------------------------------------------
\* Immutable
\* ------------------------------------------------------------------------

\* Immutable objects the application constructs.
MaxObjects == 2

\* The keyword arguments of Immutable.__init__: names and values.
AttrNames == {"value", "extra"}
AttrValues == {"a", "b"}
Attributions == UNION {[names -> AttrValues] : names \in SUBSET AttrNames}

\* What a method leaves: the heap of Immutable objects, and what it returned
\* or raised.
Left(heap, r) == [imm |-> heap, r |-> r]

\* Immutable.__init__(**attributes): object.__setattr__ for each of them.  The
\* object also remembers what it was given, for the claims to refer to.
Immutable_init(heap, attributes) ==
  Append(heap, [attrs |-> attributes, given |-> attributes])

\* (Faulty variant of Immutable_setattr: the attribute is set, as object's own
\* __setattr__ does.)
Immutable_setattr_object(heap, o, attr_name, attr_value) ==
  Left([heap EXCEPT ![o].attrs = DictPut(@, attr_name, attr_value)], Returned(0))

\* Immutable.__setattr__
Immutable_setattr(heap, o, attr_name, attr_value) ==
  Left(heap, Raised("ImmutableStateError"))

\* Immutable.__delattr__
Immutable_delattr(heap, o, attr_name) ==
  Left(heap, Raised("ImmutableStateError"))

\* (Faulty variant of Immutable_copy: what copy.copy does for a class without
\* __copy__, a new object with the same attributes.)
Immutable_copy_rebuilt(heap, o) == Left(Append(heap, heap[o]), Returned(Len(heap) + 1))

\* copy.copy(o): Immutable.__copy__ returns self.
Immutable_copy(heap, o) == Left(heap, Returned(o))

\* copy.deepcopy(o): Immutable.__deepcopy__ returns self.
Immutable_deepcopy(heap, o) == Left(heap, Returned(o))

\* AImmutableClass(...)
ImmutableInit(attributes) ==
  /\ Len(imm) < MaxObjects
  /\ imm' = Immutable_init(imm, attributes)
  /\ last' = Result("immutable_init", 0, "", "ok", Len(imm) + 1)
  /\ UNCHANGED engine
  /\ UNCHANGED <<attrs, instances, objs, bodies>>

\* obj.attr_name = attr_value
SetAttr(o, attr_name, attr_value) ==
  /\ imm' = Immutable_setattr(imm, o, attr_name, attr_value).imm
  /\ last' = Answer("setattr", o, attr_name, Immutable_setattr(imm, o, attr_name, attr_value).r)
  /\ UNCHANGED engine
  /\ UNCHANGED <<attrs, instances, objs, bodies>>

\* del obj.attr_name
DelAttr(o, attr_name) ==
  /\ imm' = Immutable_delattr(imm, o, attr_name).imm
  /\ last' = Answer("delattr", o, attr_name, Immutable_delattr(imm, o, attr_name).r)
  /\ UNCHANGED engine
  /\ UNCHANGED <<attrs, instances, objs, bodies>>

\* copy.copy(obj)
Copy(o) ==
  /\ imm' = Immutable_copy(imm, o).imm
  /\ last' = Answer("copy", o, "", Immutable_copy(imm, o).r)
  /\ UNCHANGED engine
  /\ UNCHANGED <<attrs, instances, objs, bodies>>

\* copy.deepcopy(obj)
DeepCopy(o) ==
  /\ imm' = Immutable_deepcopy(imm, o).imm
  /\ last' = Answer("deepcopy", o, "", Immutable_deepcopy(imm, o).r)
  /\ UNCHANGED engine
  /\ UNCHANGED <<attrs, instances, objs, bodies>>

NextImmutable ==
  \/ \E attributes \in Attributions : ImmutableInit(attributes)
  \/ \E o \in DOMAIN imm, n \in AttrNames, v \in AttrValues : SetAttr(o, n, v)
  \/ \E o \in DOMAIN imm, n \in AttrNames : DelAttr(o, n)
  \/ \E o \in DOMAIN imm : Copy(o)
  \/ \E o \in DOMAIN imm : DeepCopy(o)

SpecImmutable == Init /\ [][NextImmutable]_vars

\* ------------------------------------------------------------------------
\* The @Adapter decorator
\* ------------------------------------------------------------------------

\* The application writes a port (decorated with @Port, its token its class
\* name), a base class deriving from Element, and the adapter class, which
\* derives from Element, from the base class or from the port. A class body
\* gives each method as "absent", "concrete" or "abstract" (@abstractmethod).
DeclaredClasses == {"port", "base", "adapter"}
MethodKinds == {"concrete", "abstract"}
AdapterBases == {"Element", "Base", "Port"}
PortToken == "PortP"
PortMeta == "meta of PortP"

\* base_class.__dict__ of the one class in adapter.__bases__ (Element's own
\* dict holds no abstract method).
BaseBody(b) ==
  CASE b.derives = "Base" -> b.base
    [] b.derives = "Port" -> b.port
    [] OTHER -> EmptyBody

\* The names of a class body whose attribute has __isabstractmethod__.
AbstractIn(body) == {m \in Methods : body[m] = "abstract"}

\* Adapter._check_adapter: implemented_methods are the names of the adapter's
\* own __dict__ that are not abstract; every abstract name of the dicts of
\* adapter.__bases__ + (port,) must be among them.
check_adapter(b) ==
  LET implemented_methods == {m \in Methods : b.adapter[m] = "concrete"}
  IN IF \E m \in AbstractIn(BaseBody(b)) \cup AbstractIn(b.port) :
          m \notin implemented_methods
       THEN Raised("NotImplementedError")
       ELSE Returned(0)

\* Adapter.__call__, after the check: the wrapper class gets its kind, the
\* port's token and the port's metadata.
Adapter_call(b) ==
  [element |-> "adapter", token |-> PortToken, meta |-> PortMeta]

\* The class body of c gets a method.
DeclareMethod(c, m, kind) ==
  /\ bodies.decorated = Undecorated
  /\ bodies[c][m] = "absent"
  /\ bodies' = [bodies EXCEPT ![c][m] = kind]
  /\ last' = Result("declare", 0, c, "ok", 0)
  /\ UNCHANGED engine
  /\ UNCHANGED <<attrs, instances, objs, imm>>

\* The adapter class is declared with a base other than Element.
Derive(base) ==
  /\ bodies.decorated = Undecorated
  /\ bodies.derives = "Element"
  /\ base # "Element"
  /\ bodies' = [bodies EXCEPT !.derives = base]
  /\ last' = Result("declare", 0, "adapter", "ok", 0)
  /\ UNCHANGED engine
  /\ UNCHANGED <<attrs, instances, objs, imm>>

\* @Adapter(port) is applied to the adapter class.
Decorate ==
  /\ bodies.decorated = Undecorated
  /\ last' = Answer("adapter", 0, "adapter", check_adapter(bodies))
  /\ bodies' = IF check_adapter(bodies).outcome = "ok"
                 THEN [bodies EXCEPT !.decorated = Adapter_call(bodies)]
                 ELSE bodies
  /\ UNCHANGED engine
  /\ UNCHANGED <<attrs, instances, objs, imm>>

NextAdapter ==
  \/ \E c \in DeclaredClasses, m \in Methods, kind \in MethodKinds :
       DeclareMethod(c, m, kind)
  \/ \E base \in AdapterBases : Derive(base)
  \/ Decorate

SpecAdapter == Init /\ [][NextAdapter]_vars

\* ------------------------------------------------------------------------
\* Vocabulary of the claims
\* ------------------------------------------------------------------------

\* Container c's construction returns in this step.
JustBuilt(c) ==
  /\ c \in DOMAIN conts
  /\ conts[c].status = "building"
  /\ conts'[c].status = "built"

\* The construction the application asked for raises in this step.
JustRaised ==
  /\ stack # <<>>
  /\ stack' = <<>>
  /\ last'.outcome # "ok"

\* Container c is the one the cache holds under its token.
IsCached(cch, c) == Cache_get_by_token(cch, Token(conts[c].cls)) = c

\* The container classes reachable from those of S through at most n imports.
RECURSIVE Importees(_, _)
Importees(S, n) ==
  IF n = 0
    THEN S
    ELSE Importees(S \cup UNION {Range(Config(cls).imports) : cls \in {x \in S : HasConfig(x)}},
                   n - 1)

\* No chain of imports leads from one class to the other.
Unrelated(a, b) ==
  /\ b \notin Importees({a}, Cardinality(ContainerClasses))
  /\ a \notin Importees({b}, Cardinality(ContainerClasses))

\* The tokens of a sequence of declared classes.
Tokens(classes) == {Token(classes[k]) : k \in DOMAIN classes}

\* ------------------------------------------------------------------------
\* C1..C10
\* ------------------------------------------------------------------------

\* C1: a container with no imports that declares P providers and X exports
\* has, when its construction returns, P+X resolutions, P of them providers
\* and X of them exports, whatever the cache holds.
C1_DeclaredCounts ==
  [][\A c \in DOMAIN conts :
       (JustBuilt(c) /\ Config(conts[c].cls).imports = <<>>) =>
         /\ Cardinality(DOMAIN conts'[c].res) =
              Len(Config(conts[c].cls).providers) + Len(Config(conts[c].cls).exports)
         /\ Cardinality(Container_providers(rheap', conts'[c].res)) =
              Len(Config(conts[c].cls).providers)
         /\ Cardinality(Container_exports(rheap', conts'[c].res)) =
              Len(Config(conts[c].cls).exports)]_vars

\* C2: when A imports B, B lists S in its exports and A does not list S in its
\* own exports, A has, when its construction returns, a resolution for S with
\* role provider, origin B and from_cache set, whatever A's re_export is.
C2_ImportedExportIsProvider ==
  [][\A a \in DOMAIN conts :
       JustBuilt(a) =>
         \A b \in Range(Config(conts[a].cls).imports) :
           \A s \in Range(Config(b).exports) \ Range(Config(conts[a].cls).exports) :
             /\ Token(s) \in DOMAIN conts'[a].res
             /\ rheap'[conts'[a].res[Token(s)]].type = "provider"
             /\ rheap'[conts'[a].res[Token(s)]].origin = b
             /\ rheap'[conts'[a].res[Token(s)]].from_cache]_vars

\* C3: every container that imports B ends its construction with a resolution
\* for each class B lists in its exports, however many containers imported B
\* before; an importer of k containers that export one service each, which
\* itself exports one other service and provides nothing, has k+1
\* resolutions, k providers and 1 export.
C3_EveryImporterGetsTheExports ==
  [][\A a \in DOMAIN conts :
       JustBuilt(a) =>
         /\ \A b \in Range(Config(conts[a].cls).imports) :
              Tokens(Config(b).exports) \subseteq DOMAIN conts'[a].res
         /\ ( /\ Config(conts[a].cls).imports # <<>>
              /\ Config(conts[a].cls).providers = <<>>
              /\ Len(Config(conts[a].cls).exports) = 1
              /\ \A b \in Range(Config(conts[a].cls).imports) :
                   /\ Len(Config(b).exports) = 1
                   /\ Tokens(Config(b).exports) # Tokens(Config(conts[a].cls).exports) )
            => /\ Cardinality(DOMAIN conts'[a].res) =
                    Len(Config(conts[a].cls).imports) + 1
               /\ Cardinality(Container_providers(rheap', conts'[a].res)) =
                    Len(Config(conts[a].cls).imports)
               /\ Cardinality(Container_exports(rheap', conts'[a].res)) = 1]_vars

\* C4: a construction that finds its own token in the cache builds no
\* instance; its resolution map is the cached container's map, and the cache
\* still holds the container it held before.
C4_CachedContainerIsAdopted ==
  [][(stack # <<>> /\ JustBuilt(Top.self) /\ Top.own # 0) =>
       /\ Top.own # Top.self
       /\ conts'[Top.self].res = conts'[Top.own].res
       /\ conts'[Top.own].res = conts[Top.own].res
       /\ Len(iheap') = Top.n0
       /\ Cache_get_by_token(cache', Token(TopCls)) = Top.own]_vars

\* C4, reached: the application constructed a class a second time while the
\* cache held the first container, and got the first one's resolutions.
C4_Witness ==
  /\ last.op = "construct"
  /\ last.outcome = "ok"
  /\ last.value # 0
  /\ \E c \in Built :
       /\ c < last.value
       /\ conts[c].cls = last.arg
       /\ IsCached(cache, c)
       /\ DOMAIN conts[c].res # {}
       /\ conts[last.value].res = conts[c].res

\* C5: of two containers with no import relation that both list an adapter
\* class in providers, the one constructed while the cache holds the other
\* stores the other's instance, marked from_cache, and creates no instance of
\* the adapter.
C5_SiblingReusesTheInstance ==
  [][\A x \in DOMAIN conts :
       ( /\ stack # <<>>
         /\ JustBuilt(Top.self)
         /\ x # Top.self
         /\ IsCached(cache, x)
         /\ conts[x].cls # TopCls
         /\ Unrelated(conts[x].cls, TopCls) )
       => \A ad \in AdapterClasses \cap Range(Config(conts[x].cls).providers)
                                   \cap Range(Config(TopCls).providers) :
            /\ Token(ad) \in DOMAIN conts'[Top.self].res
            /\ rheap'[conts'[Top.self].res[Token(ad)]].instance =
                 rheap[conts[x].res[Token(ad)]].instance
            /\ rheap'[conts'[Top.self].res[Token(ad)]].from_cache
            /\ \A i \in DOMAIN iheap' : i > Top.n0 => iheap'[i].cls # ad]_vars

\* C6: a component a container built received, for each constructor
\* dependency, the instance the container's get returns for that dependency's
\* token.
C6_DependencyIsTheStoredInstance ==
  \A i \in DOMAIN iheap :
    conts[iheap[i].by].status = "built" =>
      \A k \in DOMAIN iheap[i].args :
        Token(Params(iheap[i].cls)[k]) \in DOMAIN conts[iheap[i].by].res =>
          iheap[i].args[k] =
            Container_get(rheap, conts[iheap[i].by].res, Params(iheap[i].cls)[k]).value

\* C7: a cached container is fully resolved (built, with a resolution for every
\* class it declares); a construction that raises leaves the cache as it was
\* when the exception was raised: the containers cached by its import step
\* stay, and no container still under construction is in the cache.
C7_RegisteredOnlyWhenResolved ==
  [][ /\ \A k \in DOMAIN cache' :
           /\ conts'[cache'[k].cont].status = "built"
           /\ Tokens(Declared(conts'[cache'[k].cont].cls))
                \subseteq DOMAIN conts'[cache'[k].cont].res
      /\ JustRaised =>
           /\ cache' = cache
           /\ \A f \in DOMAIN stack : ~IsCached(cache', stack[f].self) ]_vars

\* C7, reached: the construction of CH raised after its import CD had been
\* built and cached by it; CD is in the cache, CH is not.
C7_Witness ==
  /\ last.op = "construct"
  /\ last.arg = "CH"
  /\ last.outcome = "KeyError"
  /\ builds = 1
  /\ Cache_get_by_token(cache, "CD") # 0
  /\ Cache_get_by_token(cache, "CH") = 0


\* A step in which the application called the accessor op.
Called(op) == last'.op = op /\ last' # last

\* C8: container.get(E) raises TypeError when E is no Element type, KeyError
\* when the container has no resolution under E's token, and otherwise returns
\* the instance stored under E's token; every call ends in one of these three
\* ways (a subclass of Element that carries no token either is no Element
\* type or has no resolution under its token), and none changes the
\* container's resolutions or the cache.
C8_GetReturnsTheStoredInstance ==
  [][Called("get") =>
       /\ ~IsElement(last'.arg) => last'.outcome = "TypeError"
       /\ (HasToken(last'.arg) /\ Token(last'.arg) \notin DOMAIN conts[last'.on].res)
            => last'.outcome = "KeyError"
       /\ (HasToken(last'.arg) /\ Token(last'.arg) \in DOMAIN conts[last'.on].res)
            => /\ last'.outcome = "ok"
               /\ last'.value = rheap[conts[last'.on].res[Token(last'.arg)]].instance
       /\ (IsElement(last'.arg) /\ ~HasToken(last'.arg))
            => last'.outcome \in {"TypeError", "KeyError"}
       /\ UNCHANGED <<cache, conts, rheap, iheap>>]_vars

\* C9: an adapter carries its port's token: a built container that lists the
\* adapter as a provider keys the resolution by the port's name, not by the
\* adapter's, and get(port) and get(adapter) return the same instance, which is
\* an adapter of that port.
C9_AdapterSharesThePortToken ==
  \A c \in Built :
    \A ad \in AdapterClasses \cap Range(Config(conts[c].cls).providers) :
      /\ PortOf(ad) \in DOMAIN conts[c].res
      /\ ad \notin DOMAIN conts[c].res
      /\ Container_get(rheap, conts[c].res, ad).outcome = "ok"
      /\ Container_get(rheap, conts[c].res, ad) =
           Container_get(rheap, conts[c].res, PortOf(ad))
      /\ iheap[Container_get(rheap, conts[c].res, PortOf(ad)).value].cls
           \in {x \in AdapterClasses : PortOf(x) = PortOf(ad)}

\* C9, reached: the application called get(AdP) on a container that lists AdP
\* as a provider and got the instance stored under "PortP".
C9_Witness ==
  /\ last.op = "get"
  /\ last.arg = "AdP"
  /\ last.outcome = "ok"
  /\ "AdP" \in Range(Config(conts[last.on].cls).providers)
  /\ last.value = rheap[conts[last.on].res["PortP"]].instance

\* C10: the cache's get and try_get raise INVALID_ELEMENT for a class that is
\* no container; for a container class, get returns the cached container or
\* None, try_get returns the cached container or raises NOT_FOUND; neither
\* changes the cache.
C10_CacheLookups ==
  [][ /\ Called("cache_get") =>
           /\ ~IsContainer(last'.arg) => last'.outcome = "INVALID_ELEMENT"
           /\ IsContainer(last'.arg) =>
                /\ last'.outcome = "ok"
                /\ \/ last'.value = 0 /\ \A k \in DOMAIN cache : cache[k].token # last'.arg
                   \/ \E k \in DOMAIN cache :
                        cache[k] = [token |-> last'.arg, cont |-> last'.value]
           /\ UNCHANGED <<cache, conts, rheap, iheap>>
      /\ Called("cache_try_get") =>
           /\ ~IsContainer(last'.arg) => last'.outcome = "INVALID_ELEMENT"
           /\ IsContainer(last'.arg) =>
                \/ /\ last'.outcome = "NOT_FOUND"
                   /\ \A k \in DOMAIN cache : cache[k].token # last'.arg
                \/ /\ last'.outcome = "ok"
                   /\ \E k \in DOMAIN cache :
                        cache[k] = [token |-> last'.arg, cont |-> last'.value]
           /\ UNCHANGED <<cache, conts, rheap, iheap>> ]_vars

\* C10, reached: try_get raised NOT_FOUND for a container class the cache had
\* held before it was cleared.
C10_Witness ==
  /\ last.op = "cache_try_get"
  /\ last.arg = "CB"
  /\ last.outcome = "NOT_FOUND"
  /\ \E c \in Built : conts[c].cls = "CB"

\* ------------------------------------------------------------------------
\* C11..C20
\* ------------------------------------------------------------------------

\* C11: after _Cache.clear() the registry holds no container, try_get fails
\* with NOT_FOUND for every container class, and a second clear() leaves the
\* registry empty.
C11_ClearEmptiesTheRegistry ==
  last.op = "clear" =>
    /\ cache = <<>>
    /\ \A cls \in ContainerClasses : Cache_try_get(cache, cls) = Raised("NOT_FOUND")
    /\ ~ENABLED (Clear /\ cache' # <<>>)

\* C11, reached: the cache was cleared after two containers were built and
\* cached.
C11_Witness ==
  /\ last.op = "clear"
  /\ Cardinality(Built) = 2
  /\ cache = <<>>

\* C12: constructing an Element succeeds only when the class carries the kind,
\* the token and the metadata; when one of them is missing it raises
\* ContainerError with code INVALID_ELEMENT.
C12_ElementNeedsKindTokenMeta ==
  [][Called("element_init") =>
       /\ last'.outcome = "ok" <=> Attributes \subseteq attrs[last'.arg]
       /\ last'.outcome # "ok" => last'.outcome = "INVALID_ELEMENT"
       /\ attrs' = attrs]_vars

\* C12, reached: a class with kind and token but no metadata was constructed
\* and INVALID_ELEMENT was raised.
C12_Witness ==
  /\ last.op = "element_init"
  /\ attrs[last.arg] = {"__element__", "__token__"}
  /\ last.outcome = "INVALID_ELEMENT"

\* C14, as claimed: is_element_or_raise(x) raises exactly when x is no class
\* or lacks the kind or the token; the metadata is not looked for.
C14_ToolChecksKindAndToken ==
  [][Called("is_element_or_raise") =>
       (last'.outcome # "ok" <=>
          \/ ~IsClass(last'.arg)
          \/ "__element__" \notin AttrsOf(last'.arg)
          \/ "__token__" \notin AttrsOf(last'.arg))]_vars

\* C14, amended: is_element_or_raise(x) raises (AttributeError) exactly when x
\* is no class or lacks the metadata or the token; the kind is not looked for.
C14_ToolChecksMetaAndToken ==
  [][Called("is_element_or_raise") =>
       /\ last'.outcome # "ok" <=>
            \/ ~IsClass(last'.arg)
            \/ "__meta__" \notin AttrsOf(last'.arg)
            \/ "__token__" \notin AttrsOf(last'.arg)
       /\ last'.outcome \in {"ok", "AttributeError"}
       /\ attrs' = attrs]_vars

\* C14, reached: a class with token and metadata but no kind passed the check.
C14_Witness ==
  /\ last.op = "is_element_or_raise"
  /\ last.arg \in DeclaredElements
  /\ attrs[last.arg] = {"__token__", "__meta__"}
  /\ last.outcome = "ok"

\* C13: constructing a container whose config (CN) or metadata (CM) is absent raises
\* AttributeError (no ContainerError) before any import is resolved: the cache,
\* every container and every resolution are as they were.
C13_NoConfigNoConstruction ==
  [][(stack = <<>> /\ Called("construct") /\ last'.arg \in {"CN", "CM"}) =>
       /\ last'.outcome = "AttributeError"
       /\ stack' = <<>>
       /\ UNCHANGED <<cache, conts, rheap, iheap>>]_vars

\* C13, reached: the construction of CM, whose metadata is absent and which
\* imports CB, raised while the cache held a container.
C13_Witness ==
  /\ last.op = "construct"
  /\ last.arg = "CM"
  /\ last.outcome = "AttributeError"
  /\ cache # <<>>

\* C15: every call of a class decorated with Singleton returns the same
\* instance: the class is instantiated by the first call only (there is never
\* more than one instance of it), and a later call returns the instance as the
\* earlier references left it.
C15_OneInstance ==
  [][ /\ \A cls \in SingletonClasses :
           Cardinality({o \in DOMAIN objs' : objs'[o].cls = cls}) <= 1
      /\ (last'.op = "call" /\ last'.outcome = "ok" /\ <<last, objs>>' # <<last, objs>>) =>
           /\ last'.value = instances'[last'.arg]
           /\ objs'[last'.value].cls = last'.arg
           /\ instances[last'.arg] # 0 =>
                /\ last'.value = instances[last'.arg]
                /\ objs' = objs
           /\ instances[last'.arg] = 0 => Len(objs') = Len(objs) + 1
      /\ \A cls \in SingletonClasses :
           instances[cls] # 0 => instances'[cls] = instances[cls] ]_vars

\* C15, reached: a call returned the instance whose counter an earlier
\* reference had incremented twice.
C15_Witness ==
  /\ last.op = "call"
  /\ last.outcome = "ok"
  /\ last.value \in DOMAIN objs
  /\ objs[last.value].value = 2

\* C16: once an Immutable object is constructed, every attempt to set or to
\* delete an attribute (one it has or one it has not) raises
\* ImmutableStateError, and every object keeps the attributes and values it
\* was constructed with.
C16_NothingIsSetOrDeleted ==
  [][ /\ (last'.op \in {"setattr", "delattr"} /\ <<last, imm>>' # <<last, imm>>) =>
           /\ last'.outcome = "ImmutableStateError"
           /\ imm' = imm
      /\ \A o \in DOMAIN imm' : imm'[o].attrs = imm'[o].given
      /\ \A o \in DOMAIN imm : imm'[o] = imm[o] ]_vars

\* C16, reached: deleting an attribute the object has raised
\* ImmutableStateError.
C16_Witness ==
  /\ last.op = "delattr"
  /\ last.outcome = "ImmutableStateError"
  /\ last.arg \in DOMAIN imm[last.on].attrs

\* C17: copy.copy and copy.deepcopy of an Immutable object return the object
\* itself, and no object is created.
C17_CopyIsTheObject ==
  [][(last'.op \in {"copy", "deepcopy"} /\ <<last, imm>>' # <<last, imm>>) =>
       /\ last'.outcome = "ok"
       /\ last'.value = last'.on
       /\ imm' = imm]_vars

\* C17, reached: deepcopy of the second of two objects with equal attributes
\* returned the second.
C17_Witness ==
  /\ last.op = "deepcopy"
  /\ Len(imm) = 2
  /\ imm[1] = imm[2]
  /\ last.on = 2
  /\ last.value = 2

\* C18: the construction of a container changes only that container's own
\* resolutions and cache entry: every container that was in the cache when
\* the construction began keeps its resolutions, each with the role, origin
\* and fromCache it had, hence its providers and exports views.
C18_CachedContainersUntouched ==
  [][stack # <<>> =>
       \A k \in DOMAIN cache :
         cache[k].cont < stack[1].self =>
           /\ conts'[cache[k].cont].res = conts[cache[k].cont].res
           /\ \A t \in DOMAIN conts[cache[k].cont].res :
                /\ rheap'[conts[cache[k].cont].res[t]].type =
                     rheap[conts[cache[k].cont].res[t]].type
                /\ rheap'[conts[cache[k].cont].res[t]].origin =
                     rheap[conts[cache[k].cont].res[t]].origin
                /\ rheap'[conts[cache[k].cont].res[t]].from_cache =
                     rheap[conts[cache[k].cont].res[t]].from_cache
           /\ Container_providers(rheap', conts'[cache[k].cont].res) =
                Container_providers(rheap, conts[cache[k].cont].res)
           /\ Container_exports(rheap', conts'[cache[k].cont].res) =
                Container_exports(rheap, conts[cache[k].cont].res)]_vars

\* C19: when the construction of A returns, an export S of a container B that
\* A imports has role export in A if A lists S in its own exports, and role
\* provider if A declares no class with S's token.
C19_RedeclaredExportStaysExport ==
  [][\A a \in DOMAIN conts :
       JustBuilt(a) =>
         \A b \in Range(Config(conts[a].cls).imports) :
           \A k \in DOMAIN Config(b).exports :
             /\ Config(b).exports[k] \in Range(Config(conts[a].cls).exports) =>
                  /\ Token(Config(b).exports[k]) \in DOMAIN conts'[a].res
                  /\ rheap'[conts'[a].res[Token(Config(b).exports[k])]].type = "export"
             /\ ( /\ Token(Config(b).exports[k]) \notin Tokens(Declared(conts[a].cls))
                  /\ Token(Config(b).exports[k]) \in DOMAIN conts'[a].res ) =>
                  rheap'[conts'[a].res[Token(Config(b).exports[k])]].type = "provider"]_vars

\* C20: in every constructed container, the instance stored under the token
\* of a class the container declares in providers or exports is an instance
\* of a class that this container declares with that token.
C20_InstanceOfADeclaredClass ==
  \A c \in Built :
    \A k \in DOMAIN Declared(conts[c].cls) :
      /\ Token(Declared(conts[c].cls)[k]) \in DOMAIN conts[c].res
      /\ iheap[rheap[conts[c].res[Token(Declared(conts[c].cls)[k])]].instance].cls
           \in {d \in Range(Declared(conts[c].cls)) :
                  Token(d) = Token(Declared(conts[c].cls)[k])}

\* ------------------------------------------------------------------------
\* C21..C30
\* ------------------------------------------------------------------------

\* C21: when the construction of a container returns, a class it declares
\* whose token was found among the providers of a cached container is stored
\* as that cached resolution, with from_cache set, and with role export
\* exactly when the class is in the container's own exports and re_export is
\* true; otherwise with role provider, even when it is listed only in exports.
C21_CacheHitRole ==
  [][(AtMakeResolution /\ JustBuilt(Top.self)
        /\ Cache_get_by_token(cache, Token(TopCls)) = 0) =>
       \A k \in DOMAIN Declared(TopCls) :
         Cache_get_provider(cache, conts, rheap, Declared(TopCls)[k]) # 0 =>
           /\ conts'[Top.self].res[Token(Declared(TopCls)[k])] =
                Cache_get_provider(cache, conts, rheap, Declared(TopCls)[k])
           /\ rheap'[Cache_get_provider(cache, conts, rheap, Declared(TopCls)[k])].from_cache
           /\ rheap'[Cache_get_provider(cache, conts, rheap, Declared(TopCls)[k])].type =
                IF /\ Declared(TopCls)[k] \in Range(Config(TopCls).exports)
                   /\ Config(TopCls).re_export
                  THEN "export"
                  ELSE "provider"]_vars

\* C21, reached: CF, which lists the adapter only in exports and does not
\* re-export, was constructed while the cache held CB and stores CB's
\* resolution of the adapter as a provider.
C21_Witness ==
  \E c \in Built, x \in Built :
    /\ x < c
    /\ conts[c].cls = "CF"
    /\ conts[x].cls = "CB"
    /\ IsCached(cache, x)
    /\ IsCached(cache, c)
    /\ conts[c].res[Token("AdP")] = conts[x].res[Token("AdP")]
    /\ rheap[conts[c].res[Token("AdP")]].type = "provider"
    /\ rheap[conts[c].res[Token("AdP")]].from_cache

\* The positions, in providers + exports of container class cls, of the
\* classes that are subclasses of the requested type.
Matching(cls, requested) ==
  {j \in DOMAIN Declared(cls) : IsSubclass(Declared(cls)[j], requested)}

\* C22: a component built by a container received, for a constructor
\* parameter of type T, a new instance of the first class of providers then
\* exports that is a subclass of T, an instance no resolution holds; when no
\* declared class is a subclass of T, it received the instance stored in the
\* resolution map under T's token; a construction raises KeyError only when
\* some parameter has neither, and then the container is not in the cache.
C22_DependencyLookup ==
  [][(AtMakeResolution /\ Cache_get_by_token(cache, Token(TopCls)) = 0) =>
       /\ \A i \in DOMAIN iheap' :
            i > Len(iheap) =>
              \A k \in DOMAIN iheap'[i].args :
                IF Matching(TopCls, Params(iheap'[i].cls)[k]) # {}
                  THEN /\ iheap'[i].args[k] > Len(iheap)
                       /\ \A j \in Matching(TopCls, Params(iheap'[i].cls)[k]) :
                            iheap'[iheap'[i].args[k]].cls = Declared(TopCls)[j]
                              \/ \E j2 \in Matching(TopCls, Params(iheap'[i].cls)[k]) : j2 < j
                       /\ \A r \in DOMAIN rheap' :
                            rheap'[r].instance # iheap'[i].args[k]
                  ELSE /\ Token(Params(iheap'[i].cls)[k]) \in DOMAIN conts'[Top.self].res
                       /\ iheap'[i].args[k] =
                            rheap'[conts'[Top.self].res[Token(Params(iheap'[i].cls)[k])]].instance
       /\ (stack' = <<>> /\ last'.outcome = "KeyError") =>
            /\ \E d \in Range(Declared(TopCls)) :
                 \E k \in DOMAIN Params(d) :
                   /\ Matching(TopCls, Params(d)[k]) = {}
                   /\ Token(Params(d)[k]) \notin DOMAIN conts'[Top.self].res
            /\ ~IsCached(cache', Top.self)
       /\ JustBuilt(Top.self) =>
            \A d \in Range(Declared(TopCls)) :
              conts'[Top.self].res[Token(d)] > Len(rheap) =>
                \A k \in DOMAIN Params(d) :
                  \/ Matching(TopCls, Params(d)[k]) # {}
                  \/ Token(Params(d)[k]) \in DOMAIN conts'[Top.self].res]_vars

\* C22, reached: CX built its service with a new instance of its adapter
\* AdP2, which no resolution holds, and CB built its service with the adapter
\* instance stored under the port's token.
C22_Witness ==
  /\ \E c \in Built, i \in DOMAIN iheap :
       /\ conts[c].cls = "CX"
       /\ iheap[i].by = c
       /\ iheap[i].cls = "SvcS"
       /\ iheap[iheap[i].args[1]].cls = "AdP2"
       /\ \A r \in DOMAIN rheap : rheap[r].instance # iheap[i].args[1]
  /\ \E c \in Built, i \in DOMAIN iheap :
       /\ conts[c].cls = "CB"
       /\ iheap[i].by = c
       /\ iheap[i].cls = "SvcS"
       /\ iheap[i].args[1] = rheap[conts[c].res["PortP"]].instance

\* The classes container class cls lists, providers first, with the positions
\* at which a class with the given token stands.
Listed(cls) == Config(cls).providers \o Config(cls).exports
ListedAt(cls, token) == {j \in DOMAIN Listed(cls) : Token(Listed(cls)[j]) = token}

\* The k-th listed class of the container under construction has a
\* constructor parameter that no listed class is a subclass of and whose token
\* was neither merged from an import nor belongs to a class listed earlier.
TokenNotYetResolved(k) ==
  \E p \in DOMAIN Params(Listed(TopCls)[k]) :
    /\ Matching(TopCls, Params(Listed(TopCls)[k])[p]) = {}
    /\ Token(Params(Listed(TopCls)[k])[p]) \notin DOMAIN conts[Top.self].res
    /\ \A j \in ListedAt(TopCls, Token(Params(Listed(TopCls)[k])[p])) : j >= k

\* The resolutions created by one construction follow the order providers,
\* then exports.
BuiltInListedOrder ==
  \A j, k \in DOMAIN Listed(TopCls) :
    ( /\ j < k
      /\ conts'[Top.self].res[Token(Listed(TopCls)[j])] > Len(rheap)
      /\ conts'[Top.self].res[Token(Listed(TopCls)[k])] > Len(rheap) )
    => conts'[Top.self].res[Token(Listed(TopCls)[j])] <
         conts'[Top.self].res[Token(Listed(TopCls)[k])]

\* C23, as claimed: after the imports are merged, the classes are resolved in
\* the order providers then exports; a class with a dependency that only a
\* token can satisfy lets the construction return only if that token was
\* merged from an import or belongs to a class listed earlier, and the
\* construction raises KeyError if the token belongs to a class listed later.
C23_ListedOrderDecides ==
  [][(AtMakeResolution /\ Cache_get_by_token(cache, Token(TopCls)) = 0) =>
       /\ JustBuilt(Top.self) => BuiltInListedOrder
       /\ \A k \in DOMAIN Listed(TopCls) :
            TokenNotYetResolved(k) =>
              /\ ~JustBuilt(Top.self)
              /\ stack' = <<>>
              /\ last'.outcome = "KeyError"]_vars

\* C23, amended: the same, for a listed class that the construction builds,
\* that is, whose token is not found among the providers of a cached
\* container.
C23_ListedOrderDecidesWhenBuilt ==
  [][(AtMakeResolution /\ Cache_get_by_token(cache, Token(TopCls)) = 0) =>
       /\ JustBuilt(Top.self) => BuiltInListedOrder
       /\ \A k \in DOMAIN Listed(TopCls) :
            ( /\ TokenNotYetResolved(k)
              /\ Cache_get_provider(cache, conts, rheap, Listed(TopCls)[k]) = 0 )
            => /\ ~JustBuilt(Top.self)
               /\ stack' = <<>>
               /\ last'.outcome = "KeyError"]_vars

\* C23, reached: CO, which lists the service before the adapter it depends
\* on, raised KeyError when constructed first, and CB, which lists the
\* adapter first, was built, its adapter resolved before its service.
C23_Witness ==
  /\ last.op = "construct"
  /\ last.arg = "CB"
  /\ last.outcome = "ok"
  /\ conts[last.value].res["PortP"] < conts[last.value].res["SvcS"]
  /\ \E c \in DOMAIN conts :
       /\ c < last.value
       /\ conts[c].cls = "CO"
       /\ conts[c].status = "failed"
       /\ DOMAIN conts[c].res = {}

\* The cached containers that hold the token with role provider now.
ProvidedBy(token) ==
  {k \in DOMAIN cache : token \in Container_providers(rheap, conts[cache[k].cont].res)}

\* C24: when the construction of a container returns, a class it lists is
\* stored as a resolution that existed before only if a cached container held
\* that resolution under the class's token with role provider at the lookup;
\* a class whose token the cached containers hold with role export only, or
\* not at all, is stored as a new resolution, not marked from_cache, with an
\* instance created by this construction.
C24_OnlyProvidersAreReused ==
  [][(AtMakeResolution /\ JustBuilt(Top.self)
        /\ Cache_get_by_token(cache, Token(TopCls)) = 0) =>
       \A k \in DOMAIN Listed(TopCls) :
         IF ProvidedBy(Token(Listed(TopCls)[k])) = {}
           THEN /\ conts'[Top.self].res[Token(Listed(TopCls)[k])] > Len(rheap)
                /\ ~rheap'[conts'[Top.self].res[Token(Listed(TopCls)[k])]].from_cache
                /\ rheap'[conts'[Top.self].res[Token(Listed(TopCls)[k])]].instance > Len(iheap)
           ELSE \E x \in ProvidedBy(Token(Listed(TopCls)[k])) :
                  conts'[Top.self].res[Token(Listed(TopCls)[k])] =
                    conts[cache[x].cont].res[Token(Listed(TopCls)[k])]]_vars

\* C24, reached: CF was constructed while the cache held CE, where the
\* adapter's token has role export, and CF built its own adapter.
C24_Witness ==
  \E c \in Built, x \in Built :
    /\ x < c
    /\ conts[c].cls = "CF"
    /\ conts[x].cls = "CE"
    /\ IsCached(cache, x)
    /\ Cardinality(DOMAIN cache) = 2
    /\ rheap[conts[x].res["PortP"]].type = "export"
    /\ conts[c].res["PortP"] # conts[x].res["PortP"]
    /\ ~rheap[conts[c].res["PortP"]].from_cache
    /\ iheap[rheap[conts[c].res["PortP"]].instance].by = c

\* C25: while the application constructs a container whose token the cache
\* already holds, the cache keeps its entries, no imported container is
\* constructed, and every resolution of every cached container keeps its
\* role, origin and from_cache.
C25_CachedConstructionIsSkipped ==
  [][(stack # <<>> /\ stack[1].own # 0) =>
       /\ cache' = cache
       /\ Len(stack') <= 1
       /\ \A k \in DOMAIN cache :
            /\ conts'[cache[k].cont].res = conts[cache[k].cont].res
            /\ \A t \in DOMAIN conts[cache[k].cont].res :
                 /\ rheap'[conts[cache[k].cont].res[t]].type =
                      rheap[conts[cache[k].cont].res[t]].type
                 /\ rheap'[conts[cache[k].cont].res[t]].origin =
                      rheap[conts[cache[k].cont].res[t]].origin
                 /\ rheap'[conts[cache[k].cont].res[t]].from_cache =
                      rheap[conts[cache[k].cont].res[t]].from_cache]_vars

\* C26: in every container's map, a resolution that has an origin has the
\* name of a container this container imports, and a resolution whose
\* instance the container built itself has no origin.
C26_OriginNamesAnImport ==
  \A c \in Built :
    \A t \in DOMAIN conts[c].res :
      /\ rheap[conts[c].res[t]].origin # "" =>
           \E b \in Range(Config(conts[c].cls).imports) :
             rheap[conts[c].res[t]].origin = ClassName(b)
      /\ iheap[rheap[conts[c].res[t]].instance].by = c =>
           rheap[conts[c].res[t]].origin = ""

\* The container class is on a cycle of imports.
OnCycle(cls) ==
  /\ HasConfig(cls)
  /\ cls \in Importees(Range(Config(cls).imports), Cardinality(ContainerClasses))

\* The container classes on a cycle of imports.
CyclicClasses == {cls \in ContainerClasses : OnCycle(cls)}

\* C27: no container class on a cycle of imports is ever in the cache, and
\* while the innermost construction is that of a class on a cycle, every step
\* enters the construction of the class it imports, one level deeper, until
\* the call stack is used up and RecursionError ends the whole construction;
\* none of these steps returns a container or adds one to the cache.
C27_CycleRecursesUntilOverflow ==
  [][ /\ \A k \in DOMAIN cache' : conts'[cache'[k].cont].cls \notin CyclicClasses
      /\ (stack # <<>> /\ TopCls \in CyclicClasses) =>
           /\ cache' = cache
           /\ \/ /\ Len(stack) < MaxDepth
                 /\ Len(stack') = Len(stack) + 1
                 /\ conts'[stack'[Len(stack')].self].cls = TopImports[Top.i]
                 /\ conts'[stack'[Len(stack')].self].status = "building"
                 /\ TopImports[Top.i] \in CyclicClasses
              \/ /\ Len(stack) = MaxDepth
                 /\ stack' = <<>>
                 /\ last'.outcome = "RecursionError"
                 /\ \A f \in DOMAIN stack : conts'[stack[f].self].status = "failed" ]_vars

\* C27, reached: the construction of CY ended in RecursionError after CY's
\* construction had been entered a second time from CZ's, and neither is
\* cached.
C27_Witness ==
  /\ last.op = "construct"
  /\ last.arg = "CY"
  /\ last.outcome = "RecursionError"
  /\ \E a, b, c \in DOMAIN conts :
       /\ a < b /\ b < c
       /\ conts[a].cls = "CY" /\ conts[b].cls = "CZ" /\ conts[c].cls = "CY"
       /\ conts[a].status = "failed" /\ conts[c].status = "failed"
  /\ Cache_get_by_token(cache, "CY") = 0
  /\ Cache_get_by_token(cache, "CZ") = 0

\* No class reachable from cls through imports is on a cycle of imports.
Acyclic(cls) ==
  Importees({cls}, Cardinality(ContainerClasses)) \cap CyclicClasses = {}

\* The container classes from which no cycle of imports can be reached.
AcyclicClasses == {cls \in ContainerClasses : Acyclic(cls)}

\* The number of container classes on the longest chain of imports that
\* starts at cls (chains are followed for at most n imports).
RECURSIVE ChainLength(_, _)
ChainLength(cls, n) ==
  IF n = 0 \/ ~HasConfig(cls) THEN 1
  ELSE IF Config(cls).imports = <<>> THEN 1
  ELSE 1 + ChainLength(
             CHOOSE b \in Range(Config(cls).imports) :
               \A b2 \in Range(Config(cls).imports) :
                 ChainLength(b2, n - 1) <= ChainLength(b, n - 1),
             n - 1)

\* C28: the construction of a container from which no cycle of imports can
\* be reached never nests deeper than its longest chain of imports; it ends,
\* either returning a container whose token the cache then holds (the new
\* container itself when the token was not cached before) or raising; and
\* once begun it does end.
C28_AcyclicConstructionTerminates ==
  /\ [](stack # <<>> /\ RootCls \in AcyclicClasses =>
          Len(stack) <= ChainLength(RootCls, Cardinality(ContainerClasses)))
  /\ [][(stack # <<>> /\ stack' = <<>> /\ RootCls \in AcyclicClasses) =>
          /\ last'.op = "construct"
          /\ last'.arg = RootCls
          /\ IF last'.outcome = "ok"
               THEN /\ last'.value = stack[1].self
                    /\ Cache_get_by_token(cache', Token(RootCls)) # 0
                    /\ stack[1].own = 0 => IsCached(cache', last'.value)
               ELSE last'.outcome \in {"KeyError", "TypeError", "AttributeError"}]_vars
  /\ (stack # <<>> /\ RootCls \in AcyclicClasses) ~> (stack = <<>>)

\* C28, reached: one construction of CK, whose chain of imports CK, CA, CB is
\* the longest, built and cached the three containers.
C28_Witness ==
  /\ builds = 1
  /\ stack = <<>>
  /\ last.op = "construct"
  /\ last.arg = "CK"
  /\ last.outcome = "ok"
  /\ ChainLength("CK", Cardinality(ContainerClasses)) = 3
  /\ IsCached(cache, last.value)
  /\ Cache_get_by_token(cache, "CA") # 0
  /\ Cache_get_by_token(cache, "CB") # 0

\* The application is constructing a class it had built before, and the cache
\* was empty when the construction began: it holds nothing but containers
\* this construction made. (The cache was cleared in between.)
AfterClear ==
  /\ stack # <<>>
  /\ \A k \in DOMAIN cache : cache[k].cont > stack[1].self
  /\ \E c \in Built : c < stack[1].self /\ conts[c].cls = RootCls

\* C29: a class built before that is constructed after the cache was cleared
\* ends with every class it lists resolved anew (a resolution not marked
\* from_cache, held by no container built before the clear, with an instance
\* created by this construction) and is the container the cache holds for its
\* token; the containers built before keep their maps and resolutions.
C29_FreshAfterClear ==
  [][AfterClear =>
       /\ \A c \in DOMAIN conts :
            c < stack[1].self =>
              /\ conts'[c] = conts[c]
              /\ \A t \in DOMAIN conts[c].res :
                   rheap'[conts[c].res[t]] = rheap[conts[c].res[t]]
       /\ (Len(stack) = 1 /\ JustBuilt(Top.self)) =>
            /\ IsCached(cache', Top.self)
            /\ \A k \in DOMAIN Listed(TopCls) :
                 /\ ~rheap'[conts'[Top.self].res[Token(Listed(TopCls)[k])]].from_cache
                 /\ rheap'[conts'[Top.self].res[Token(Listed(TopCls)[k])]].instance > Top.n0
                 /\ \A c \in DOMAIN conts :
                      c < Top.self =>
                        \A t \in DOMAIN conts[c].res :
                          conts[c].res[t] #
                            conts'[Top.self].res[Token(Listed(TopCls)[k])]]_vars

\* What Python's attribute lookup finds for method m on the adapter class: the
\* adapter's own body first, then the class it derives from.
Lookup(b, m) ==
  IF b.adapter[m] # "absent" THEN b.adapter[m] ELSE BaseBody(b)[m]

\* C30: @Adapter(port) raises (NotImplementedError) exactly when some abstract
\* method of the port is not implemented by the adapter class, in its own
\* body or by inheritance; otherwise the class it returns has kind adapter,
\* the port's token and the port's metadata.
C30_AdapterImplementsItsPort ==
  last.op = "adapter" =>
    /\ last.outcome = "NotImplementedError" <=>
         \E m \in AbstractIn(bodies.port) : Lookup(bodies, m) # "concrete"
    /\ last.outcome # "NotImplementedError" =>
         /\ last.outcome = "ok"
         /\ bodies.decorated =
              [element |-> "adapter", token |-> PortToken, meta |-> PortMeta]

====
